---- MODULE Spec2Model ----
(***************************************************************************)
(* A model of homelabctl: the stack loader, the dependency validator and   *)
(* its cycle detector, the category registry and sorter, the variable      *)
(* merger, and the generation pipeline.                                    *)
(***************************************************************************)
EXTENDS Integers, Sequences, FiniteSets, TLC

VARIABLES
    manifests,   \* stacks/<name>/stack.yaml on disk, by stack name
    call,        \* the last library call: its operation, arguments and result
    stages,      \* Pipeline.stages
    ctx,         \* Pipeline.ctx
    invoked,     \* the stages the last Execute invoked, in order, by index
    result,      \* what the last Execute returned
    disk,        \* the repository on disk, and the environment
    runs         \* the outcome of each run of Generate so far

libVars == <<manifests, call>>

pipeVars == <<stages, ctx, invoked, result, disk, runs>>

vars == <<manifests, call, stages, ctx, invoked, result, disk, runs>>

(***************************************************************************)
(* Bounds of the model.                                                    *)
(***************************************************************************)
\* longest requires list of one manifest
MaxRequires == 2
\* requires entries over all manifests together
MaxEdges == 3

(***************************************************************************)
(* Names.  Go compares strings bytewise; the stack names of the model are  *)
(* listed in that order.                                                   *)
(***************************************************************************)
StackNames == <<"a", "b", "c", "docker">>

\* the stacks of the repositories the library calls run on
Stacks == {"a", "b", "c"}

\* the stacks of the repositories Generate runs on
GenerateStacks == {"a", "b", "docker"}

NameIndex(name) == CHOOSE i \in DOMAIN StackNames : StackNames[i] = name

\* the Go expression x < y on two stack names
NameLess(x, y) == NameIndex(x) < NameIndex(y)

Range(s) == {s[i] : i \in DOMAIN s}

\* sequences over S without repetition, of length at most n
RECURSIVE SeqsUpTo(_, _)
SeqsUpTo(S, n) ==
    IF n = 0 THEN {<<>>}
    ELSE LET shorter == SeqsUpTo(S, n - 1)
         IN shorter \cup {Append(s, x) : s \in shorter, x \in S}

DistinctSeqsUpTo(S, n) ==
    {s \in SeqsUpTo(S, n) : Cardinality(Range(s)) = Len(s)}

\* every ordering of the finite set S (the orders a Go map range may take)
Orderings(S) == {s \in DistinctSeqsUpTo(S, Cardinality(S)) : Range(s) = S}

(***************************************************************************)
(* internal/categories/categories.go                                       *)
(***************************************************************************)
\* A YAML value is kept as the mapping from its nested keys to its leaves;
\* a bare scalar is the mapping from the empty key.
Scalar(v) == "" :> v

NoVars == [k \in {} |-> Scalar("")]

UnknownOrder == 999

defaultMetadata ==
    [core |-> [Name |-> "core", Order |-> 1,
               Defaults |-> ("restart" :> Scalar("unless-stopped"))
                         @@ ("security_opt" :> ("0" :> "no-new-privileges:true"))],
     infrastructure |-> [Name |-> "infrastructure", Order |-> 2,
               Defaults |-> ("restart" :> Scalar("unless-stopped"))
                         @@ ("security_opt" :> ("0" :> "no-new-privileges:true"))],
     monitoring |-> [Name |-> "monitoring", Order |-> 3,
               Defaults |-> ("restart" :> Scalar("unless-stopped"))],
     automation |-> [Name |-> "automation", Order |-> 4,
               Defaults |-> ("restart" :> Scalar("unless-stopped"))],
     media |-> [Name |-> "media", Order |-> 5,
               Defaults |-> ("restart" :> Scalar("unless-stopped"))
                         @@ ("environment" :> [PUID |-> "1000", PGID |-> "1000"])],
     tools |-> [Name |-> "tools", Order |-> 6, Defaults |-> NoVars]]

\* the entry RegisterCategory stores for a name
RegisterCategory(name) ==
    IF name \in DOMAIN defaultMetadata
    THEN defaultMetadata[name]
    ELSE [Name |-> name, Order |-> UnknownOrder, Defaults |-> NoVars]

ValidCategoryName(name) == name # ""

\* Get on a registry in which the names of registered are registered
Get(registered, name) ==
    IF name \in registered
    THEN [err |-> "", cat |-> RegisterCategory(name)]
    ELSE [err |-> "unknown category", cat |-> RegisterCategory(name)]

\* GetOrDefault registers the name when it is missing, so GetOrder never
\* reaches its fallback
GetOrder(name) == RegisterCategory(name).Order

(***************************************************************************)
(* internal/stacks/stacks.go                                               *)
(***************************************************************************)
\* LoadStack: the manifest of name, or the first error of its validation.
\* present stands for a stack.yaml that can be read and parsed.
LoadStack(name) ==
    LET m == manifests[name]
    IN IF ~m.present THEN [err |-> "read", stack |-> m]
       ELSE IF m.name = "" THEN [err |-> "missing name", stack |-> m]
       ELSE IF m.name # name THEN [err |-> "name mismatch", stack |-> m]
       ELSE IF m.category = "" THEN [err |-> "missing category", stack |-> m]
       ELSE IF ~ValidCategoryName(m.category)
            THEN [err |-> "invalid category", stack |-> m]
       \* the deprecated fallback derives services from the keys of vars
       ELSE IF Len(m.services) = 0 /\ DOMAIN m.vars = {}
            THEN [err |-> "no services", stack |-> m]
       ELSE IF \E i \in DOMAIN m.requires : m.requires[i] = name
            THEN [err |-> "self dependency", stack |-> m]
       ELSE [err |-> "", stack |-> m]

Loadable(name) == LoadStack(name).err = ""

EnabledStacksMap(stackList) == Range(stackList)

(***************************************************************************)
(* internal/stacks/cycles.go                                               *)
(***************************************************************************)
stateUnvisited == 0
stateVisiting == 1
stateVisited == 2

\* d.graph[node] and d.state[node] of the Go maps: a missing key reads as
\* the zero value
GraphOf(d, node) == IF node \in DOMAIN d.graph THEN d.graph[node] ELSE <<>>

StateOf(d, node) == IF node \in DOMAIN d.state THEN d.state[node] ELSE stateUnvisited

SetState(d, node, st) ==
    [d EXCEPT !.state = [n \in DOMAIN d.state \cup {node} |->
                           IF n = node THEN st ELSE d.state[n]]]

\* NewCycleDetector: the adjacency list of the given stacks, or the first
\* load error
NewCycleDetector(stackList) ==
    LET bad == {i \in DOMAIN stackList : ~Loadable(stackList[i])}
        names == Range(stackList)
    IN IF bad # {}
       THEN [err |-> LoadStack(stackList[CHOOSE i \in bad : \A j \in bad : i <= j]).err,
             detector |-> [graph |-> <<>>, state |-> <<>>, path |-> <<>>]]
       ELSE [err |-> "",
             detector |-> [graph |-> [n \in names |-> manifests[n].requires],
                           state |-> [n \in names |-> stateUnvisited],
                           path |-> <<>>]]

\* extractCycle returning the whole path, not its part from backNode on
extractCycle_WholePath(d, backNode) == d.path

\* extractCycle: the path from the first occurrence of backNode to its end
extractCycle(d, backNode) ==
    LET hits == {i \in DOMAIN d.path : d.path[i] = backNode}
    IN IF hits = {} THEN d.path
       ELSE LET cycleStart == CHOOSE i \in hits : \A j \in hits : i <= j
            IN SubSeq(d.path, cycleStart, Len(d.path))

RECURSIVE dfs(_, _)
RECURSIVE dfsDeps(_, _, _)
\* dfs: the detector after the call, and the cycle returned (found = FALSE
\* stands for the nil return)
dfs(d, node) ==
    dfsDeps([SetState(d, node, stateVisiting) EXCEPT !.path = Append(d.path, node)],
            node, 1)

\* dfs taking every dependency seen before, finished or not, for a back edge
dfsDeps_VisitedIsCycle(d, node, i) ==
    IF i > Len(GraphOf(d, node))
    THEN [d |-> [SetState(d, node, stateVisited)
                    EXCEPT !.path = SubSeq(d.path, 1, Len(d.path) - 1)],
          found |-> FALSE, cycle |-> <<>>]
    ELSE LET dep == GraphOf(d, node)[i]
         IN IF StateOf(d, dep) # stateUnvisited
            THEN [d |-> d, found |-> TRUE, cycle |-> extractCycle(d, dep)]
            ELSE LET sub == dfs(d, dep)
                 IN IF sub.found THEN sub ELSE dfsDeps(sub.d, node, i + 1)

\* the loop of dfs over d.graph[node] from its i-th entry on, and what
\* follows the loop
dfsDeps(d, node, i) ==
    IF i > Len(GraphOf(d, node))
    THEN [d |-> [SetState(d, node, stateVisited)
                    EXCEPT !.path = SubSeq(d.path, 1, Len(d.path) - 1)],
          found |-> FALSE, cycle |-> <<>>]
    ELSE LET dep == GraphOf(d, node)[i]
         IN IF StateOf(d, dep) = stateVisiting
            THEN [d |-> d, found |-> TRUE, cycle |-> extractCycle(d, dep)]
            ELSE IF StateOf(d, dep) = stateUnvisited
            THEN LET sub == dfs(d, dep)
                 IN IF sub.found THEN sub ELSE dfsDeps(sub.d, node, i + 1)
            ELSE dfsDeps(d, node, i + 1)

RECURSIVE DetectCyclesFrom(_, _, _, _)
\* the loop of DetectCycles over the keys of d.graph, taken in the order
\* iterOrder of this run's map iteration, from its i-th key on
DetectCyclesFrom(d, iterOrder, i, cycles) ==
    IF i > Len(iterOrder) THEN [d |-> d, cycles |-> cycles]
    ELSE IF StateOf(d, iterOrder[i]) = stateUnvisited
    THEN LET sub == dfs(d, iterOrder[i])
         IN DetectCyclesFrom(sub.d, iterOrder, i + 1,
                IF sub.found THEN Append(cycles, sub.cycle) ELSE cycles)
    ELSE DetectCyclesFrom(d, iterOrder, i + 1, cycles)

DetectCycles(d, iterOrder) == DetectCyclesFrom(d, iterOrder, 1, <<>>).cycles

(***************************************************************************)
(* internal/stacks/stacks.go: ValidateDependencies                         *)
(***************************************************************************)
NoCycle == <<>>

\* the check of one enabled stack: its load error, or its first requires
\* entry that is not enabled
DependencyError(name, enabled) ==
    LET stack == LoadStack(name)
        missing == {i \in DOMAIN stack.stack.requires : stack.stack.requires[i] \notin enabled}
    IN IF stack.err # "" THEN stack.err
       ELSE IF missing # {} THEN "not enabled"
       ELSE ""

\* ValidateDependencies; iterOrder is the order in which this run's range
\* over the detector's graph yields its keys
ValidateDependencies(enabledStacks, iterOrder) ==
    LET enabled == EnabledStacksMap(enabledStacks)
        bad == {i \in DOMAIN enabledStacks : DependencyError(enabledStacks[i], enabled) # ""}
    IN IF bad # {}
       THEN [err |-> DependencyError(enabledStacks[CHOOSE i \in bad : \A j \in bad : i <= j],
                                     enabled),
             cycle |-> NoCycle]
       ELSE LET made == NewCycleDetector(enabledStacks)
            IN IF made.err # "" THEN [err |-> made.err, cycle |-> NoCycle]
               ELSE LET cycles == DetectCycles(made.detector, iterOrder)
                    IN IF Len(cycles) > 0
                       THEN [err |-> "cycle", cycle |-> cycles[1]]
                       ELSE [err |-> "", cycle |-> NoCycle]

(***************************************************************************)
(* internal/stacks/category_validation.go                                  *)
(***************************************************************************)
\* the category check rejecting a dependency of the same category order too
CategoryError_SameOrderRejected(stackName) ==
    LET stack == LoadStack(stackName)
        requires == stack.stack.requires
    IN IF stack.err # "" THEN stack.err
       ELSE IF \E i \in DOMAIN requires :
                 /\ LoadStack(requires[i]).err = ""
                 /\ GetOrder(manifests[requires[i]].category) >= GetOrder(stack.stack.category)
       THEN "invalid category dependency"
       ELSE ""

\* the check of one stack by ValidateCategoryDependencies: its load error,
\* or its first requires entry that loads and has a higher category order.
\* LoadStack has registered the category it returns, so Get finds it.
CategoryError(stackName) ==
    LET stack == LoadStack(stackName)
        stackCat == Get({stack.stack.category}, stack.stack.category)
        requires == stack.stack.requires
        Violates(depName) ==
            LET depStack == LoadStack(depName)
                depCat == Get({depStack.stack.category}, depStack.stack.category)
            IN /\ depStack.err = ""
               /\ depCat.err = ""
               /\ depCat.cat.Order > stackCat.cat.Order
    IN IF stack.err # "" THEN stack.err
       ELSE IF stackCat.err # "" THEN stackCat.err
       ELSE IF \E i \in DOMAIN requires : Violates(requires[i])
       THEN "invalid category dependency"
       ELSE ""

ValidateCategoryDependencies(stackList) ==
    LET bad == {i \in DOMAIN stackList : CategoryError(stackList[i]) # ""}
    IN IF bad = {} THEN [err |-> "", stack |-> ""]
       ELSE LET first == CHOOSE i \in bad : \A j \in bad : i <= j
            IN [err |-> CategoryError(stackList[first]), stack |-> stackList[first]]

(***************************************************************************)
(* internal/stacks/ordering.go                                             *)
(***************************************************************************)
StackWithCategory(name) ==
    [Name |-> name,
     Category |-> manifests[name].category,
     Order |-> GetOrder(manifests[name].category)]

\* a less function without the tie-break by name
Less_OrderOnly(x, y) == x.Order < y.Order

\* the less function SortByCategory hands to sort.Slice
Less(x, y) ==
    IF x.Order # y.Order THEN x.Order < y.Order ELSE NameLess(x.Name, y.Name)

\* sort.Slice, as an insertion sort under Less
Insert(sorted, x) ==
    LET k == Cardinality({i \in DOMAIN sorted : ~Less(x, sorted[i])})
    IN SubSeq(sorted, 1, k) \o <<x>> \o SubSeq(sorted, k + 1, Len(sorted))

RECURSIVE SortSlice(_)
SortSlice(s) ==
    IF s = <<>> THEN <<>>
    ELSE Insert(SortSlice(SubSeq(s, 1, Len(s) - 1)), s[Len(s)])

SortByCategory(stackList) ==
    LET bad == {i \in DOMAIN stackList : ~Loadable(stackList[i])}
    IN IF bad # {}
       THEN [err |-> LoadStack(stackList[CHOOSE i \in bad : \A j \in bad : i <= j]).err,
             sorted |-> <<>>]
       ELSE LET stacksInfo == [i \in DOMAIN stackList |-> StackWithCategory(stackList[i])]
                ordered == SortSlice(stacksInfo)
            IN [err |-> "", sorted |-> [i \in DOMAIN ordered |-> ordered[i].Name]]

(***************************************************************************)
(* internal/stacks (variables): MergeVariables, MergeWithCategoryDefaults  *)
(***************************************************************************)
\* an overlay that keeps the value already in the map
Overlay_KeepFirst(base, top) ==
    [k \in DOMAIN base \cup DOMAIN top |-> IF k \in DOMAIN base THEN base[k] ELSE top[k]]

\* for k, v := range top { merged[k] = v } on a map holding base
Overlay(base, top) ==
    [k \in DOMAIN base \cup DOMAIN top |-> IF k \in DOMAIN top THEN top[k] ELSE base[k]]

MergeVariables(stackVars, inventoryVars, secrets) ==
    Overlay(Overlay(Overlay(NoVars, stackVars), inventoryVars), secrets)

MergeWithCategoryDefaults(stackName, stackVars, inventoryVars, secrets) ==
    LET stack == LoadStack(stackName)
        cat == Get({stack.stack.category}, stack.stack.category)
    IN IF stack.err # "" THEN [err |-> stack.err, merged |-> NoVars]
       ELSE IF cat.err # "" THEN [err |-> cat.err, merged |-> NoVars]
       ELSE [err |-> "",
             merged |-> Overlay(Overlay(Overlay(Overlay(NoVars, cat.cat.Defaults),
                                                stackVars), inventoryVars), secrets)]

(***************************************************************************)
(* internal/paths, internal/fs, internal/inventory, internal/secrets       *)
(***************************************************************************)
\* a path is kept as the pieces its helper joins: directory, name, suffix
DockerCompose == <<"runtime", "docker", "-compose.yml">>

RuntimeComposeFile(stackName) == <<"runtime", stackName, "-compose.yml">>

\* a map with no entry
NoEntries == [k \in {} |-> ""]

\* the names of a set in the order os.ReadDir yields them (sorted by name)
SortedByName(S) ==
    CHOOSE s \in Orderings(S) : \A i, j \in DOMAIN s : i < j => NameLess(s[i], s[j])

\* the keys of a map in the order one range over it yields them, the order
\* of this run being given over all names
RangeOrder(order, keys) == SelectSeq(order, LAMBDA k : k \in keys)

\* d is the repository on disk
GetEnabledStacks(d) ==
    IF \E s \in d.enabled : ~manifests[s].present
    THEN [err |-> "points to non-existent stack", stacks |-> <<>>]
    ELSE [err |-> "", stacks |-> SortedByName(d.enabled)]

LoadVars(d) == [err |-> "", vars |-> d.inventoryVars]

GetDisabledServices(d) == [err |-> "", services |-> d.disabledServices]

LoadSecrets(d, stackName) == [err |-> "", secrets |-> d.secrets[stackName]]

GetStackVars(name) ==
    LET stack == LoadStack(name)
    IN IF stack.err # "" THEN [err |-> stack.err, vars |-> NoVars]
       ELSE [err |-> "", vars |-> stack.stack.vars]

ValidateServiceDefinitions(name) ==
    LET stack == LoadStack(name)
    IN IF stack.err # "" THEN stack.err
       ELSE IF \E i \in DOMAIN stack.stack.services :
                 stack.stack.services[i] \notin DOMAIN stack.stack.vars
       THEN "missing from vars section"
       ELSE ""

(***************************************************************************)
(* internal/render: gomplate on a compose template                         *)
(***************************************************************************)
\* A compose template is kept as what it renders: the stack's own service,
\* named after the stack and defined by the variable of that name in the
\* context, the other services it names, and its volumes and networks.
RenderTemplate(template, templateCtx) ==
    IF templateCtx.Stack.name \notin DOMAIN templateCtx.Vars
    THEN [err |-> "gomplate failed to render", content |-> NoEntries]
    ELSE [err |-> "",
          content |->
            [Services |-> [n \in {templateCtx.Stack.name} \cup DOMAIN template.services |->
                              IF n = templateCtx.Stack.name
                              THEN templateCtx.Vars[templateCtx.Stack.name]
                              ELSE template.services[n]],
             Volumes |-> template.volumes,
             Networks |-> template.networks]]

\* RenderToFile: the disk after the call; d.gomplate keeps, by output path,
\* the context gomplate was last run with
RenderToFile(d, template, outputPath, templateCtx) ==
    LET out == RenderTemplate(template, templateCtx)
        ran == [d EXCEPT !.gomplate =
                   [p \in DOMAIN d.gomplate \cup {outputPath} |->
                       IF p = outputPath THEN templateCtx ELSE d.gomplate[p]]]
    IN IF out.err # "" THEN [err |-> out.err, disk |-> ran]
       ELSE [err |-> "",
             disk |-> [ran EXCEPT !.files =
                         [p \in DOMAIN d.files \cup {outputPath} |->
                             IF p = outputPath THEN out.content ELSE d.files[p]]]]

(***************************************************************************)
(* internal/compose/compose.go                                             *)
(***************************************************************************)
EmptyComposeFile == [Services |-> NoEntries, Volumes |-> NoEntries, Networks |-> NoEntries]

\* a network is external when its external key holds the boolean true
IsExternal(net) == "external" \in DOMAIN net /\ net.external = TRUE

\* a merge of networks that keeps the first definition whatever it is
MergeNetwork_KeepFirst(existing, net) == existing

\* the network kept for a name both merged and the file define
MergeNetwork(existing, net) ==
    IF IsExternal(net) /\ ~IsExternal(existing) THEN existing
    ELSE IF ~IsExternal(net) /\ IsExternal(existing) THEN net
    ELSE existing

\* one file of the loop of MergeComposeFiles, no service of it being in
\* merged already
MergeOneFile(merged, compose) ==
    [Services |-> [n \in DOMAIN merged.Services \cup DOMAIN compose.Services |->
                      IF n \in DOMAIN merged.Services
                      THEN merged.Services[n] ELSE compose.Services[n]],
     Volumes |-> [n \in DOMAIN merged.Volumes \cup DOMAIN compose.Volumes |->
                      IF n \in DOMAIN merged.Volumes
                      THEN merged.Volumes[n] ELSE compose.Volumes[n]],
     Networks |-> [n \in DOMAIN merged.Networks \cup DOMAIN compose.Networks |->
                      IF n \notin DOMAIN merged.Networks THEN compose.Networks[n]
                      ELSE IF n \notin DOMAIN compose.Networks THEN merged.Networks[n]
                      ELSE MergeNetwork(merged.Networks[n], compose.Networks[n])]]

RECURSIVE MergeComposeFrom(_, _, _, _, _)
\* a merge that keeps the first definition of a duplicate service
MergeComposeFrom_FirstServiceWins(files, d, order, i, merged) ==
    IF i > Len(files) THEN [err |-> "", name |-> "", merged |-> merged]
    ELSE IF files[i] \notin DOMAIN d.files
    THEN [err |-> "failed to read", name |-> "", merged |-> EmptyComposeFile]
    ELSE MergeComposeFrom(files, d, order, i + 1, MergeOneFile(merged, d.files[files[i]]))

\* the loop of MergeComposeFiles from its i-th file on; order is the order
\* of this call's ranges over the services of a file, and the duplicate
\* reported is the first service of that range that merged holds already
MergeComposeFrom(files, d, order, i, merged) ==
    IF i > Len(files) THEN [err |-> "", name |-> "", merged |-> merged]
    ELSE IF files[i] \notin DOMAIN d.files
    THEN [err |-> "failed to read", name |-> "", merged |-> EmptyComposeFile]
    ELSE LET compose == d.files[files[i]]
             duplicate == RangeOrder(order, DOMAIN compose.Services
                                              \cap DOMAIN merged.Services)
         IN IF duplicate # <<>>
            THEN [err |-> "duplicate service name", name |-> duplicate[1],
                  merged |-> EmptyComposeFile]
            ELSE MergeComposeFrom(files, d, order, i + 1, MergeOneFile(merged, compose))

MergeComposeFiles(files, d, order) ==
    MergeComposeFrom(files, d, order, 1, EmptyComposeFile)

WriteComposeFile(d, path, compose) ==
    [d EXCEPT !.files = [p \in DOMAIN d.files \cup {path} |->
                            IF p = path THEN compose ELSE d.files[p]]]

\* a filter that reports the services and deletes none
FilterDisabledServices_KeepServices(compose, disabledServices, order) ==
    [compose |-> compose,
     removed |-> RangeOrder(order, DOMAIN compose.Services \cap Range(disabledServices))]

\* FilterDisabledServices: the compose file it leaves and the list it
\* returns; order is the order of this call's range over compose.Services
FilterDisabledServices(compose, disabledServices, order) ==
    LET disabled == Range(disabledServices)
    IN IF Len(disabledServices) = 0 THEN [compose |-> compose, removed |-> <<>>]
       ELSE [compose |-> [compose EXCEPT !.Services =
                            [n \in DOMAIN compose.Services \ disabled |->
                                compose.Services[n]]],
             removed |-> RangeOrder(order, DOMAIN compose.Services \cap disabled)]

(***************************************************************************)
(* internal/pipeline: the context, the stages and the driver               *)
(***************************************************************************)
\* the context of pipeline.New; MergedCompose is nil until MergeComposeStage
\* sets it, and is kept as the empty file until then
NewContext ==
    [EnabledStacks |-> <<>>, InventoryVars |-> NoVars, DisabledServices |-> {},
     RenderedFiles |-> <<>>, StackConfigs |-> NoEntries,
     RenderedCompose |-> NoEntries, MergedCompose |-> EmptyComposeFile]

\* what a stage returns, with the context and the disk it leaves
StageResult(err, c, d) == [err |-> err, ctx |-> c, disk |-> d]

\* order is the order of this run's range over the detector's graph
LoadStacksStage(c, d, order) ==
    LET enabled == GetEnabledStacks(d)
        sorted == SortByCategory(enabled.stacks)
        valid == ValidateDependencies(sorted.sorted,
                                      RangeOrder(order, Range(sorted.sorted)))
    IN IF enabled.err # "" THEN StageResult("failed to get enabled stacks", c, d)
       ELSE IF Len(enabled.stacks) = 0 THEN StageResult("no stacks enabled", c, d)
       ELSE IF sorted.err # "" THEN StageResult("failed to sort stacks", c, d)
       ELSE IF valid.err # "" THEN StageResult("dependency validation failed", c, d)
       ELSE StageResult("", [c EXCEPT !.EnabledStacks = sorted.sorted], d)

LoadInventoryStage(c, d) ==
    LET inventoryVars == LoadVars(d)
        disabledServices == GetDisabledServices(d)
    IN IF inventoryVars.err # "" THEN StageResult("failed to load inventory vars", c, d)
       ELSE IF disabledServices.err # ""
       THEN StageResult("failed to load disabled services",
                        [c EXCEPT !.InventoryVars = inventoryVars.vars], d)
       ELSE StageResult("", [c EXCEPT !.InventoryVars = inventoryVars.vars,
                                      !.DisabledServices = Range(disabledServices.services)], d)

\* the body of the loop of MergeVariablesStage for one stack
MergeVariablesOf(c, d, stackName) ==
    LET stack == LoadStack(stackName)
        services == ValidateServiceDefinitions(stackName)
        stackVars == GetStackVars(stackName)
        stackSecrets == LoadSecrets(d, stackName)
        mergedVars == MergeWithCategoryDefaults(stackName, stackVars.vars,
                                                c.InventoryVars, stackSecrets.secrets)
    IN IF stack.err # "" THEN [err |-> "failed to load stack", ctx |-> c]
       ELSE IF services # "" THEN [err |-> "invalid services", ctx |-> c]
       ELSE IF stackVars.err # "" THEN [err |-> "failed to get vars", ctx |-> c]
       ELSE IF stackSecrets.err # "" THEN [err |-> "failed to load secrets", ctx |-> c]
       ELSE IF mergedVars.err # "" THEN [err |-> "failed to merge vars", ctx |-> c]
       ELSE [err |-> "",
             ctx |-> [c EXCEPT !.StackConfigs =
                        [s \in DOMAIN c.StackConfigs \cup {stackName} |->
                            IF s = stackName
                            THEN [Name |-> stackName, MergedVars |-> mergedVars.merged,
                                  FilteredVars |-> NoVars,
                                  Services |-> stack.stack.services]
                            ELSE c.StackConfigs[s]]]]

RECURSIVE MergeVariablesFrom(_, _, _)
MergeVariablesFrom(c, d, i) ==
    IF i > Len(c.EnabledStacks) THEN StageResult("", c, d)
    ELSE LET one == MergeVariablesOf(c, d, c.EnabledStacks[i])
         IN IF one.err # "" THEN StageResult(one.err, one.ctx, d)
            ELSE MergeVariablesFrom(one.ctx, d, i + 1)

MergeVariablesStage(c, d) == MergeVariablesFrom(c, d, 1)

\* a FilterServices stage that drops the variables of the disabled services
FilterServicesStage_DropDisabled(c, d) ==
    StageResult("", [c EXCEPT !.StackConfigs =
                        [s \in DOMAIN c.StackConfigs |->
                            [c.StackConfigs[s] EXCEPT !.FilteredVars =
                                [k \in DOMAIN c.StackConfigs[s].MergedVars
                                         \ c.DisabledServices |->
                                    c.StackConfigs[s].MergedVars[k]]]]], d)

FilterServicesStage(c, d) ==
    StageResult("", [c EXCEPT !.StackConfigs =
                        [s \in DOMAIN c.StackConfigs |->
                            [c.StackConfigs[s] EXCEPT
                                !.FilteredVars = c.StackConfigs[s].MergedVars]]], d)

\* the body of the loop of RenderTemplatesStage for one stack; the stacks of
\* the model have no contribute and no config directory
RenderTemplatesOf(c, d, stackName) ==
    LET config == c.StackConfigs[stackName]
        templateCtx == [Vars |-> config.FilteredVars,
                        Stack |-> [name |-> stackName, category |-> ""],
                        Stacks |-> [enabled |-> c.EnabledStacks]]
        composeOutput == RuntimeComposeFile(stackName)
        rendered == RenderToFile(d, d.templates[stackName], composeOutput, templateCtx)
    IN IF rendered.err # "" THEN StageResult("failed to render compose", c, d)
       ELSE StageResult("",
                [c EXCEPT !.RenderedFiles = Append(c.RenderedFiles, composeOutput),
                          !.RenderedCompose =
                              [s \in DOMAIN c.RenderedCompose \cup {stackName} |->
                                  IF s = stackName THEN composeOutput
                                  ELSE c.RenderedCompose[s]]],
                rendered.disk)

RECURSIVE RenderTemplatesFrom(_, _, _, _)
RenderTemplatesFrom(c, d, keys, i) ==
    IF i > Len(keys) THEN StageResult("", c, d)
    ELSE LET one == RenderTemplatesOf(c, d, keys[i])
         IN IF one.err # "" THEN one
            ELSE RenderTemplatesFrom(one.ctx, one.disk, keys, i + 1)

\* order is the order of this run's range over ctx.StackConfigs
RenderTemplatesStage(c, d, order) ==
    RenderTemplatesFrom(c, d, RangeOrder(order, DOMAIN c.StackConfigs), 1)

\* the files MergeComposeStage collects, in the order of this run's range
\* over ctx.RenderedCompose
ComposeFiles(c, order) ==
    LET keys == RangeOrder(order, DOMAIN c.RenderedCompose)
    IN [i \in DOMAIN keys |-> c.RenderedCompose[keys[i]]]

\* order is the order of this run's range over ctx.RenderedCompose,
\* services the order of the ranges over the services of a file
MergeComposeStage(c, d, order, services) ==
    LET merged == MergeComposeFiles(ComposeFiles(c, order), d, services)
    IN IF merged.err # "" THEN StageResult("failed to merge compose files", c, d)
       ELSE StageResult("", [c EXCEPT !.MergedCompose = merged.merged], d)

\* services is the order of this run's ranges over ctx.DisabledServices and
\* over the services of the merged file
FilterDisabledComposeStage(c, d, services) ==
    IF c.DisabledServices = {} THEN StageResult("", c, d)
    ELSE LET disabled == RangeOrder(services, c.DisabledServices)
         IN StageResult("",
                [c EXCEPT !.MergedCompose =
                    FilterDisabledServices(c.MergedCompose, disabled, services).compose],
                d)

WriteOutputStage(c, d) ==
    StageResult("", c, WriteComposeFile(d, DockerCompose, c.MergedCompose))

CleanupStage(skip, c, d) ==
    IF skip THEN StageResult("", c, d)
    ELSE StageResult("", c,
            [d EXCEPT !.files = [p \in DOMAIN d.files \ Range(c.RenderedFiles) |->
                                    d.files[p]]])

\* the stages of Generate, and the two stages of the pipeline tests: one
\* that returns nil and one that returns an error
RunStage(stage, c, d, iter) ==
    CASE stage = "LoadStacks" -> LoadStacksStage(c, d, iter.graph)
      [] stage = "LoadInventory" -> LoadInventoryStage(c, d)
      [] stage = "MergeVariables" -> MergeVariablesStage(c, d)
      [] stage = "FilterServices" -> FilterServicesStage(c, d)
      [] stage = "RenderTemplates" -> RenderTemplatesStage(c, d, iter.render)
      [] stage = "MergeCompose" -> MergeComposeStage(c, d, iter.merge, iter.services)
      [] stage = "FilterDisabledCompose" -> FilterDisabledComposeStage(c, d, iter.services)
      [] stage = "WriteOutput" -> WriteOutputStage(c, d)
      [] stage = "Cleanup" -> CleanupStage(FALSE, c, d)
      [] stage = "CleanupSkipped" -> CleanupStage(TRUE, c, d)
      [] stage = "ok" -> StageResult("", c, d)
      [] stage = "fail" -> StageResult("file does not exist", c, d)

RECURSIVE ExecuteFrom(_, _, _, _, _, _)
\* the loop of Execute that goes on to the next stage after an error
ExecuteFrom_ContinueOnError(stageList, i, c, d, iter, log) ==
    IF i > Len(stageList)
    THEN [err |-> "", stage |-> 0, ctx |-> c, disk |-> d, invoked |-> log]
    ELSE LET r == RunStage(stageList[i], c, d, iter)
         IN ExecuteFrom(stageList, i + 1, r.ctx, r.disk, iter, Append(log, i))

\* the loop of Execute from its i-th stage on; log lists the stages invoked
ExecuteFrom(stageList, i, c, d, iter, log) ==
    IF i > Len(stageList)
    THEN [err |-> "", stage |-> 0, ctx |-> c, disk |-> d, invoked |-> log]
    ELSE LET r == RunStage(stageList[i], c, d, iter)
         IN IF r.err # ""
            THEN [err |-> r.err, stage |-> i, ctx |-> r.ctx, disk |-> r.disk,
                  invoked |-> Append(log, i)]
            ELSE ExecuteFrom(stageList, i + 1, r.ctx, r.disk, iter, Append(log, i))

Execute(stageList, c, d, iter) == ExecuteFrom(stageList, 1, c, d, iter, <<>>)

(***************************************************************************)
(* cmd/generate.go                                                         *)
(***************************************************************************)
GenerateStages(debug) ==
    <<"LoadStacks", "LoadInventory", "MergeVariables", "FilterServices",
      "RenderTemplates", "MergeCompose", "FilterDisabledCompose", "WriteOutput",
      IF debug THEN "CleanupSkipped" ELSE "Cleanup">>

Generate(d, iter) == Execute(GenerateStages(d.debug), NewContext, d, iter)

(***************************************************************************)
(* The pipeline before any stage is added, on an empty repository.         *)
(***************************************************************************)
NoResult == [state |-> "idle", err |-> "", stage |-> 0]

EmptyDisk ==
    [enabled |-> {}, templates |-> NoEntries, inventoryVars |-> NoVars,
     secrets |-> NoEntries, disabledServices |-> <<>>, files |-> NoEntries,
     gomplate |-> NoEntries, debug |-> FALSE]

IdlePipeline ==
    /\ stages = <<>>
    /\ ctx = NewContext
    /\ invoked = <<>>
    /\ result = NoResult
    /\ disk = EmptyDisk
    /\ runs = <<>>

(***************************************************************************)
(* The library calls, on the manifests on disk.                            *)
(***************************************************************************)
Categories == {"core", "media", "custom"}

\* the requires lists a manifest may hold
RequiresLists == DistinctSeqsUpTo(Stacks, MaxRequires)

\* the number of requires entries of the lists req[s], s in S
RECURSIVE Edges(_, _)
Edges(req, S) ==
    IF S = {} THEN 0
    ELSE LET s == CHOOSE s \in S : TRUE
         IN Len(req[s]) + Edges(req, S \ {s})

Manifest(stackName, isPresent, category, requires) ==
    [present |-> isPresent, name |-> stackName, category |-> category,
     requires |-> requires, services |-> <<stackName>>,
     vars |-> (stackName :> ("image" :> "nginx"))]

\* the enabled lists handed to the validators and the sorter: each caller
\* has loaded every enabled stack before (cmd/validate.go, SortByCategory in
\* LoadStacksStage), in any order of a non-empty set
EnabledLists ==
    UNION {Orderings(S) : S \in SUBSET {s \in Stacks : Loadable(s)} \ {{}}}

NoCall == [op |-> "none", stackNames |-> <<>>, args |-> <<>>, err |-> "", out |-> <<>>]

\* the dependency graphs of the cycle tests: every stack in category other
InitDeps ==
    /\ \E req \in [Stacks -> RequiresLists] :
          /\ Edges(req, Stacks) <= MaxEdges
          /\ manifests = [s \in Stacks |-> Manifest(s, TRUE, "other", req[s])]
    /\ call = NoCall
    /\ IdlePipeline

DoValidateDependencies ==
    /\ call.op = "none"
    /\ \E enabledStacks \in EnabledLists :
      \E iterOrder \in Orderings(Range(enabledStacks)) :
        LET res == ValidateDependencies(enabledStacks, iterOrder)
        IN /\ call' = [op |-> "ValidateDependencies", stackNames |-> enabledStacks, args |-> <<>>,
                       err |-> res.err, out |-> res.cycle]
           /\ UNCHANGED <<manifests, pipeVars>>

DoDetectCycles ==
    /\ call.op = "none"
    /\ \E stackList \in EnabledLists :
      \E iterOrder \in Orderings(Range(stackList)) :
        LET made == NewCycleDetector(stackList)
        IN /\ call' = [op |-> "DetectCycles", stackNames |-> stackList, args |-> <<>>,
                       err |-> made.err, out |-> DetectCycles(made.detector, iterOrder)]
           /\ UNCHANGED <<manifests, pipeVars>>

DoValidateCategoryDependencies ==
    /\ call.op = "none"
    /\ \E stackList \in EnabledLists :
        LET res == ValidateCategoryDependencies(stackList)
        IN /\ call' = [op |-> "ValidateCategoryDependencies", stackNames |-> stackList, args |-> <<>>,
                       err |-> res.err, out |-> <<>>]
           /\ UNCHANGED <<manifests, pipeVars>>

DoSortByCategory ==
    /\ call.op = "none"
    /\ \E stackList \in EnabledLists :
        LET res == SortByCategory(stackList)
        IN /\ call' = [op |-> "SortByCategory", stackNames |-> stackList, args |-> <<>>,
                       err |-> res.err, out |-> res.sorted]
           /\ UNCHANGED <<manifests, pipeVars>>

\* the caller has taken the result of the call
Return ==
    /\ call.op # "none"
    /\ call' = NoCall
    /\ UNCHANGED <<manifests, pipeVars>>

\* manifests of any category, present or not
InitCategories ==
    /\ \E req \in [Stacks -> RequiresLists], cat \in [Stacks -> Categories],
          isPresent \in [Stacks -> BOOLEAN] :
          /\ Edges(req, Stacks) <= MaxEdges
          /\ manifests = [s \in Stacks |-> Manifest(s, isPresent[s], cat[s], req[s])]
    /\ call = NoCall
    /\ IdlePipeline

NextDeps == DoValidateDependencies \/ DoDetectCycles \/ Return

SpecDeps == InitDeps /\ [][NextDeps]_vars

\* the top-level keys and the values of the variable layers
VarKeys == {"app", "restart"}

VarValues == {[port |-> "80", debug |-> "false"], [port |-> "9000"], [debug |-> "true"]}

\* a layer: stack vars, inventory vars or secrets
Layers == UNION {[K -> VarValues] : K \in SUBSET VarKeys}

\* stack a of any category, the other stacks in tools
InitMerge ==
    /\ \E category \in Categories :
          manifests = [s \in Stacks |->
                          Manifest(s, TRUE, IF s = "a" THEN category ELSE "tools", <<>>)]
    /\ call = NoCall
    /\ IdlePipeline

DoMergeVariables ==
    /\ call.op = "none"
    /\ \E stackVars \in Layers, inventoryVars \in Layers, secrets \in Layers :
        /\ call' = [op |-> "MergeVariables", stackNames |-> <<>>,
                    args |-> <<stackVars, inventoryVars, secrets>>,
                    err |-> "", out |-> MergeVariables(stackVars, inventoryVars, secrets)]
        /\ UNCHANGED <<manifests, pipeVars>>

DoMergeWithCategoryDefaults ==
    /\ call.op = "none"
    /\ \E stackName \in Stacks :
       \E stackVars \in Layers, inventoryVars \in Layers, secrets \in Layers :
        LET res == MergeWithCategoryDefaults(stackName, stackVars, inventoryVars, secrets)
        IN /\ call' = [op |-> "MergeWithCategoryDefaults", stackNames |-> <<stackName>>,
                       args |-> <<stackVars, inventoryVars, secrets>>,
                       err |-> res.err, out |-> res.merged]
           /\ UNCHANGED <<manifests, pipeVars>>

NextMerge == DoMergeVariables \/ DoMergeWithCategoryDefaults \/ Return

SpecMerge == InitMerge /\ [][NextMerge]_vars

NextOrder ==
    DoValidateDependencies \/ DoValidateCategoryDependencies \/ DoSortByCategory \/ Return

SpecOrder == InitCategories /\ [][NextOrder]_vars

(***************************************************************************)
(* Calls of MergeComposeFiles on rendered files.                           *)
(***************************************************************************)
\* most files handed to one call of MergeComposeFiles
MaxFiles == 3

FragmentServices == {"app", "db"}

\* the networks section of the i-th file: none, or the network proxy as
\* external, as created, or with no external key
FragmentNetworks(i) ==
    {NoEntries,
     [proxy |-> [external |-> TRUE, name |-> StackNames[i]]],
     [proxy |-> [external |-> FALSE, name |-> StackNames[i]]],
     [proxy |-> [name |-> StackNames[i]]]}

\* the i-th file: some of the services, each with a definition of its own
Fragments(i) ==
    {[Services |-> [n \in names |-> [image |-> n, stack |-> StackNames[i]]],
      Volumes |-> [data |-> [driver |-> StackNames[i]]],
      Networks |-> networks] :
        names \in SUBSET FragmentServices, networks \in FragmentNetworks(i)}

\* the files of a call, in the order of its argument
MergedFiles(n) == [i \in 1..n |-> RuntimeComposeFile(StackNames[i])]

InitCompose ==
    /\ manifests = [s \in Stacks |-> Manifest(s, TRUE, "tools", <<>>)]
    /\ call = NoCall
    /\ stages = <<>>
    /\ ctx = NewContext
    /\ invoked = <<>>
    /\ result = NoResult
    /\ runs = <<>>
    /\ \E n \in 0..MaxFiles :
       \E content \in [1..n -> UNION {Fragments(i) : i \in 1..n}] :
          /\ \A i \in 1..n : content[i] \in Fragments(i)
          /\ disk = [EmptyDisk EXCEPT !.files =
                        [p \in Range(MergedFiles(n)) |->
                            content[CHOOSE i \in 1..n : MergedFiles(n)[i] = p]]]

DoMergeComposeFiles ==
    /\ call.op = "none"
    /\ \E order \in Orderings(FragmentServices) :
       \E files \in {MergedFiles(Cardinality(DOMAIN disk.files))} :
       \E res \in {MergeComposeFiles(files, disk, order)} :
          call' = [op |-> "MergeComposeFiles", stackNames |-> <<>>,
                   args |-> <<files>>, err |-> res.err,
                   out |-> [name |-> res.name, merged |-> res.merged]]
    /\ UNCHANGED <<manifests, pipeVars>>

NextCompose == DoMergeComposeFiles \/ Return

SpecCompose == InitCompose /\ [][NextCompose]_vars

(***************************************************************************)
(* A pipeline of the stages of the pipeline tests.                         *)
(***************************************************************************)
\* most stages added to one pipeline
MaxStages == 5

TestStages == {"ok", "fail"}

\* the ranges of the test stages: none
NoIter == [graph |-> <<>>, render |-> <<>>, merge |-> <<>>, services |-> <<>>]

InitPipeline ==
    /\ manifests = [s \in Stacks |-> Manifest(s, TRUE, "tools", <<>>)]
    /\ call = NoCall
    /\ IdlePipeline

AddStage ==
    /\ result.state = "idle"
    /\ Len(stages) < MaxStages
    /\ \E stage \in TestStages : stages' = Append(stages, stage)
    /\ UNCHANGED <<manifests, call, ctx, invoked, result, disk, runs>>

DoExecute ==
    /\ result.state = "idle"
    /\ \E r \in {Execute(stages, ctx, disk, NoIter)} :
          /\ invoked' = r.invoked
          /\ result' = [state |-> "returned", err |-> r.err, stage |-> r.stage]
          /\ ctx' = r.ctx
          /\ disk' = r.disk
    /\ UNCHANGED <<manifests, call, stages, runs>>

NextPipeline == AddStage \/ DoExecute

SpecPipeline == InitPipeline /\ [][NextPipeline]_vars

(***************************************************************************)
(* Runs of Generate on one repository.                                     *)
(***************************************************************************)
\* most runs of Generate on one repository
MaxRuns == 2

\* most requires entries over the manifests of the repository
MaxGenerateEdges == 1

GenerateCategories == [a |-> "core", b |-> "media", docker |-> "media"]

GenerateRequiresLists == DistinctSeqsUpTo(GenerateStacks, MaxRequires)

\* the service names of the repositories Generate runs on, in the order
\* the ranges over services take; the templates share one service name at
\* most and a range removes or reports one name at most, so no other order
\* gives another outcome
ServiceOrder == <<"a", "b", "docker", "web">>

\* the compose templates: one with a local volume, one with the same
\* volume on nfs that creates the proxy network, one that joins the proxy
\* network and names a second service
Templates ==
    {[services |-> NoEntries,
      volumes |-> [data |-> [driver |-> "local"]],
      networks |-> NoEntries],
     [services |-> NoEntries,
      volumes |-> [data |-> [driver |-> "nfs"]],
      networks |-> [proxy |-> [external |-> FALSE, driver |-> "bridge"]]],
     [services |-> [web |-> [image |-> "nginx"]],
      volumes |-> NoEntries,
      networks |-> [proxy |-> [external |-> TRUE, driver |-> ""]]]}

DisabledLists == {<<>>, <<"a">>}

InitGenerate ==
    /\ \E req \in [GenerateStacks -> GenerateRequiresLists],
          enabled \in SUBSET GenerateStacks,
          templates \in [GenerateStacks -> Templates],
          disabledServices \in DisabledLists, debug \in BOOLEAN :
          /\ Edges(req, GenerateStacks) <= MaxGenerateEdges
          /\ manifests = [s \in GenerateStacks |->
                             Manifest(s, TRUE, GenerateCategories[s], req[s])]
          /\ disk = [enabled |-> enabled, templates |-> templates,
                     inventoryVars |-> NoVars,
                     secrets |-> [s \in GenerateStacks |-> NoVars],
                     disabledServices |-> disabledServices,
                     files |-> NoEntries, gomplate |-> NoEntries, debug |-> debug]
    /\ call = NoCall
    /\ stages = <<>>
    /\ ctx = NewContext
    /\ invoked = <<>>
    /\ result = NoResult
    /\ runs = <<>>

\* what a run of Generate leaves to its caller: the error, the stage that
\* failed, and runtime/docker-compose.yml if it exists
Outcome(r) ==
    [err |-> r.err, stage |-> r.stage,
     output |-> IF DockerCompose \in DOMAIN r.disk.files
                THEN <<r.disk.files[DockerCompose]>> ELSE <<>>]

\* One run of Generate, on a pipeline of its own. Each range over a map
\* takes the order this run gives it. The range over the detector's graph
\* shares the order of the range over StackConfigs: a run that reports a
\* cycle never renders, and the graph order changes nothing else.
DoGenerate ==
    /\ call.op = "none"
    /\ Len(runs) < MaxRuns
    /\ \E render \in Orderings(disk.enabled), merge \in Orderings(disk.enabled) :
       \E r \in {Generate(disk, [graph |-> render, render |-> render, merge |-> merge,
                                  services |-> ServiceOrder])} :
          /\ disk' = r.disk
          /\ runs' = Append(runs, Outcome(r))
    /\ UNCHANGED <<manifests, call, stages, ctx, invoked, result>>

\* the lists of disabled services handed to FilterDisabledServices
FilterLists == {<<>>, <<"a", "a">>, <<"web", "ghost", "a">>}

\* a call of FilterDisabledServices on the compose file Generate wrote
DoFilterDisabledServices ==
    /\ call.op = "none"
    /\ DockerCompose \in DOMAIN disk.files
    /\ \E disabledServices \in FilterLists :
       \E order \in Orderings(DOMAIN disk.files[DockerCompose].Services
                                \cap Range(disabledServices)) :
       \E res \in {FilterDisabledServices(disk.files[DockerCompose],
                                          disabledServices, order)} :
          call' = [op |-> "FilterDisabledServices", stackNames |-> <<>>,
                   args |-> <<disk.files[DockerCompose], disabledServices>>,
                   err |-> "", out |-> res]
    /\ UNCHANGED <<manifests, pipeVars>>

NextGenerate == DoGenerate \/ DoFilterDisabledServices \/ Return

SpecGenerate == InitGenerate /\ [][NextGenerate]_vars

(***************************************************************************)
(* The contributions of the enabled stacks: renderContributions, as         *)
(* RenderTemplatesStage calls it for one enabled stack after the other.     *)
(***************************************************************************)
MaxEntries == 2

TraefikDynamicDir == "runtime/traefik/dynamic"

TemplateExt == ".tmpl"

\* paths.TraefikContributionFile
TraefikContributionFile(stackName, filename) ==
    TraefikDynamicDir \o "/" \o stackName \o "-" \o filename

\* stack names are lowercase and hyphen-separated
ContributionStacks == {"a", "a-b", "b"}

\* the entries a contribute/traefik directory may hold, in the order of
\* their names, which is the order os.ReadDir returns them in; the name of
\* an entry is its stem followed by its extension; gomplate fails on broken
ContributeEntries ==
    <<[stem |-> "b-routes.yml", ext |-> ".tmpl", isDir |-> FALSE, broken |-> FALSE],
      [stem |-> "broken.yml", ext |-> ".tmpl", isDir |-> FALSE, broken |-> TRUE],
      [stem |-> "middlewares", ext |-> "", isDir |-> TRUE, broken |-> FALSE],
      [stem |-> "notes", ext |-> ".md", isDir |-> FALSE, broken |-> FALSE],
      [stem |-> "routes.yml", ext |-> ".tmpl", isDir |-> FALSE, broken |-> FALSE]>>

\* entry.Name()
EntryName(entry) == entry.stem \o entry.ext

\* filepath.Ext of an entry's name
Ext(entry) == entry.ext

\* strings.TrimSuffix of an entry's name
TrimSuffix(entry, suffix) ==
    IF entry.ext = suffix THEN entry.stem ELSE EntryName(entry)

\* os.ReadDir of a directory that holds the entries S
ReadDir(S) == SelectSeq(ContributeEntries, LAMBDA entry : entry \in S)

RECURSIVE renderContributionsFrom(_, _, _, _, _)
\* the loop of renderContributions from entry i on; rendered lists what
\* the call has written
renderContributionsFrom(stackName, entries, i, d, rendered) ==
    IF i > Len(entries) THEN [err |-> "", disk |-> d, rendered |-> rendered]
    ELSE IF entries[i].isDir \/ Ext(entries[i]) # TemplateExt
    THEN renderContributionsFrom(stackName, entries, i + 1, d, rendered)
    ELSE LET outputName == TrimSuffix(entries[i], TemplateExt)
             outputPath == TraefikContributionFile(stackName, outputName)
             content == [stack |-> stackName, template |-> EntryName(entries[i])]
         IN IF entries[i].broken
            THEN [err |-> "failed to render traefik contribution",
                  disk |-> d, rendered |-> rendered]
            ELSE renderContributionsFrom(stackName, entries, i + 1,
                    [d EXCEPT !.files =
                        [p \in DOMAIN d.files \cup {outputPath} |->
                            IF p = outputPath THEN content ELSE d.files[p]]],
                    Append(rendered, [stack |-> stackName, entry |-> entries[i],
                                      path |-> outputPath]))

\* renderContributions of a stack for the provider traefik; a stack
\* without the directory has no entries
renderContributions(stackName, d) ==
    renderContributionsFrom(stackName, ReadDir(d.contribute[stackName]), 1, d, <<>>)

InitContributions ==
    /\ manifests = [s \in {} |-> ""]
    /\ call = NoCall
    /\ stages = <<>>
    /\ ctx = NewContext
    /\ invoked = <<>>
    /\ result = NoResult
    /\ runs = <<>>
    /\ \E enabled \in SUBSET ContributionStacks,
          contribute \in [ContributionStacks -> SUBSET Range(ContributeEntries)] :
          /\ \A s \in ContributionStacks :
                /\ Cardinality(contribute[s]) <= MaxEntries
                /\ s \notin enabled => contribute[s] = {}
          /\ disk = [enabled |-> enabled, contribute |-> contribute,
                     files |-> NoEntries]

\* the next call of renderContributions of a RenderTemplates stage, which
\* ranges over the enabled stacks in map order and ends at the first error
DoRenderContributions ==
    /\ \A i \in DOMAIN runs : runs[i].err = ""
    /\ \E stackName \in disk.enabled \ {runs[i].stack : i \in DOMAIN runs} :
       \E r \in {renderContributions(stackName, disk)} :
          /\ disk' = r.disk
          /\ runs' = Append(runs, [stack |-> stackName, err |-> r.err,
                                   rendered |-> r.rendered])
    /\ UNCHANGED <<manifests, call, stages, ctx, invoked, result>>

NextContributions == DoRenderContributions

SpecContributions == InitContributions /\ [][NextContributions]_vars

(***************************************************************************)
(* internal/fs: the links under enabled/.                                  *)
(***************************************************************************)
MaxCalls == 3

\* StackExists: stacks/<name> is a directory
StackExists(d, name) == name \in d.stacks

\* IsStackEnabled: Lstat of enabled/<name> succeeds, whatever the entry is
IsStackEnabled(d, name) == name \in DOMAIN d.links

\* the link EnableStack creates
StackLink(name) == [kind |-> "symlink", target |-> "../stacks/" \o name]

\* EnableStack: the error and the disk after the call
EnableStack(d, name) ==
    IF ~StackExists(d, name) THEN [err |-> "stack does not exist", disk |-> d]
    ELSE IF IsStackEnabled(d, name) THEN [err |-> "stack already enabled", disk |-> d]
    ELSE [err |-> "",
          disk |-> [d EXCEPT !.links =
                      [n \in DOMAIN d.links \cup {name} |->
                          IF n = name THEN StackLink(name) ELSE d.links[n]]]]

\* a DisableStack that reports success and leaves the link
DisableStack_KeepLink(d, name) ==
    IF ~IsStackEnabled(d, name) THEN [err |-> "stack not enabled", disk |-> d]
    ELSE [err |-> "", disk |-> d]

\* DisableStack: the error and the disk after the call; os.Remove fails on
\* a directory that is not empty
DisableStack(d, name) ==
    IF ~IsStackEnabled(d, name) THEN [err |-> "stack not enabled", disk |-> d]
    ELSE IF d.links[name].kind = "dir"
    THEN [err |-> "failed to remove symlink", disk |-> d]
    ELSE [err |-> "",
          disk |-> [d EXCEPT !.links =
                      [n \in DOMAIN d.links \ {name} |-> d.links[n]]]]

\* what an entry of enabled/ may be: a link to the stack, a link to a
\* stack that is gone, a file, a directory with entries
EnabledEntries(name) ==
    {StackLink(name), [kind |-> "symlink", target |-> "../stacks/gone"],
     [kind |-> "file", target |-> ""], [kind |-> "dir", target |-> ""]}

InitStacks ==
    /\ manifests = [s \in {} |-> ""]
    /\ call = NoCall
    /\ stages = <<>>
    /\ ctx = NewContext
    /\ invoked = <<>>
    /\ result = NoResult
    /\ runs = <<>>
    /\ \E existing \in SUBSET Stacks, linked \in SUBSET Stacks :
       \E links \in [linked -> UNION {EnabledEntries(n) : n \in Stacks}] :
          /\ \A n \in linked : links[n] \in EnabledEntries(n)
          /\ disk = [stacks |-> existing, links |-> links]

\* a call of EnableStack; runs keeps the calls with the links before and
\* after each
DoEnableStack ==
    /\ Len(runs) < MaxCalls
    /\ \E name \in Stacks : \E r \in {EnableStack(disk, name)} :
          /\ disk' = r.disk
          /\ runs' = Append(runs, [op |-> "EnableStack", name |-> name, err |-> r.err,
                                   before |-> disk.links, after |-> r.disk.links])
    /\ UNCHANGED <<manifests, call, stages, ctx, invoked, result>>

\* a call of DisableStack
DoDisableStack ==
    /\ Len(runs) < MaxCalls
    /\ \E name \in Stacks : \E r \in {DisableStack(disk, name)} :
          /\ disk' = r.disk
          /\ runs' = Append(runs, [op |-> "DisableStack", name |-> name, err |-> r.err,
                                   before |-> disk.links, after |-> r.disk.links])
    /\ UNCHANGED <<manifests, call, stages, ctx, invoked, result>>

NextStacks == DoEnableStack \/ DoDisableStack

SpecStacks == InitStacks /\ [][NextStacks]_vars

(***************************************************************************)
(* internal/inventory: the state file inventory/state.yaml and the legacy  *)
(* key disabled_services of inventory/vars.yaml.  d.state is <<>> while    *)
(* the file is missing and <<list>> otherwise; d.legacy is <<>> while the  *)
(* key is absent and <<value>> otherwise.                                  *)
(***************************************************************************)
MaxStateCalls == 3

MaxListLen == 2

\* writeState
writeState(d, list) == [d EXCEPT !.state = <<list>>]

\* LoadState: the list and the disk after the call, which creates a
\* missing file with an empty list
LoadState(d) ==
    IF d.state = <<>> THEN [list |-> <<>>, disk |-> writeState(d, <<>>)]
    ELSE [list |-> d.state[1], disk |-> d]

\* a DisableService that adds the service whether it is listed or not
DisableService_NoCheck(d, serviceName) ==
    [err |-> "", disk |-> writeState(LoadState(d).disk,
                                     Append(LoadState(d).list, serviceName))]

\* DisableService
DisableService(d, serviceName) ==
    LET state == LoadState(d)
    IN IF serviceName \in Range(state.list)
       THEN [err |-> "is already disabled", disk |-> state.disk]
       ELSE [err |-> "", disk |-> writeState(state.disk, Append(state.list, serviceName))]

\* an EnableService that removes the first entry of the list
EnableService_DropFirst(d, serviceName) ==
    LET state == LoadState(d)
    IN IF serviceName \notin Range(state.list)
       THEN [err |-> "is not disabled", disk |-> state.disk]
       ELSE [err |-> "", disk |-> writeState(state.disk, Tail(state.list))]

\* EnableService
EnableService(d, serviceName) ==
    LET state == LoadState(d)
        newList == SelectSeq(state.list, LAMBDA s : s # serviceName)
    IN IF serviceName \notin Range(state.list)
       THEN [err |-> "is not disabled", disk |-> state.disk]
       ELSE [err |-> "", disk |-> writeState(state.disk, newList)]

\* a migration that replaces the state list by the legacy strings
MigrateFrom_Replace(items, i, list) ==
    [k \in 1..Len(SelectSeq(items, LAMBDA item : item.isString)) |->
        SelectSeq(items, LAMBDA item : item.isString)[k].value]

RECURSIVE MigrateFrom(_, _, _)
\* the loop of MigrateDisabledServices over the legacy items from item i on
MigrateFrom(items, i, list) ==
    IF i > Len(items) THEN list
    ELSE IF items[i].isString /\ items[i].value \notin Range(list)
    THEN MigrateFrom(items, i + 1, Append(list, items[i].value))
    ELSE MigrateFrom(items, i + 1, list)

\* MigrateDisabledServices
MigrateDisabledServices(d) ==
    IF d.legacy = <<>> THEN [err |-> "", disk |-> d]
    ELSE LET state == LoadState(d)
             disabled == d.legacy[1]
         IN IF disabled.isList
            THEN [err |-> "",
                  disk |-> writeState(state.disk, MigrateFrom(disabled.items, 1, state.list))]
            ELSE [err |-> "", disk |-> writeState(state.disk, state.list)]

\* the service names of the state file
ServiceNames == {"a", "b", "c"}

\* the items of a legacy list: strings and a value that is no string
LegacyItems ==
    {[isString |-> TRUE, value |-> "a"], [isString |-> TRUE, value |-> "c"],
     [isString |-> FALSE, value |-> "7"]}

\* the values of the legacy key: a list, or a scalar
LegacyValues ==
    {[isList |-> FALSE, items |-> <<>>]}
    \cup {[isList |-> TRUE, items |-> items] : items \in SeqsUpTo(LegacyItems, MaxListLen)}

InitState ==
    /\ manifests = [s \in {} |-> ""]
    /\ call = NoCall
    /\ stages = <<>>
    /\ ctx = NewContext
    /\ invoked = <<>>
    /\ result = NoResult
    /\ runs = <<>>
    /\ \E state \in {<<>>} \cup {<<list>> : list \in DistinctSeqsUpTo(ServiceNames, MaxListLen)},
          legacy \in {<<>>} \cup {<<value>> : value \in LegacyValues} :
          disk = [state |-> state, legacy |-> legacy]

\* the list of the state file, empty while the file is missing
StateList(d) == IF d.state = <<>> THEN <<>> ELSE d.state[1]

\* what runs keeps of a call on the state file
StateCall(op, name, r) ==
    [op |-> op, name |-> name, err |-> r.err, before |-> StateList(disk),
     after |-> StateList(r.disk), legacyBefore |-> disk.legacy,
     legacyAfter |-> r.disk.legacy, stateBefore |-> disk.state,
     stateAfter |-> r.disk.state]

DoDisableService ==
    /\ Len(runs) < MaxStateCalls
    /\ \E serviceName \in ServiceNames : \E r \in {DisableService(disk, serviceName)} :
          /\ disk' = r.disk
          /\ runs' = Append(runs, StateCall("DisableService", serviceName, r))
    /\ UNCHANGED <<manifests, call, stages, ctx, invoked, result>>

DoEnableService ==
    /\ Len(runs) < MaxStateCalls
    /\ \E serviceName \in ServiceNames : \E r \in {EnableService(disk, serviceName)} :
          /\ disk' = r.disk
          /\ runs' = Append(runs, StateCall("EnableService", serviceName, r))
    /\ UNCHANGED <<manifests, call, stages, ctx, invoked, result>>

\* init on an existing repository, which migrates the legacy key
DoMigrateDisabledServices ==
    /\ Len(runs) < MaxStateCalls
    /\ \E r \in {MigrateDisabledServices(disk)} :
          /\ disk' = r.disk
          /\ runs' = Append(runs, StateCall("MigrateDisabledServices", "", r))
    /\ UNCHANGED <<manifests, call, stages, ctx, invoked, result>>

NextState == DoDisableService \/ DoEnableService \/ DoMigrateDisabledServices

SpecState == InitState /\ [][NextState]_vars

(***************************************************************************)
(* cmd: the commands enable and disable, for stacks and for services.      *)
(***************************************************************************)
MaxCommandEdges == 2

\* fs.GetEnabledStacks on the entries of enabled/: every entry must be a
\* link to an existing stack directory
GetEnabledStackLinks(d) ==
    IF \E n \in DOMAIN d.links : d.links[n].kind # "symlink"
    THEN [err |-> "is not a valid symlink", stacks |-> <<>>]
    ELSE IF \E n \in DOMAIN d.links :
               d.links[n] # StackLink(n) \/ ~StackExists(d, n)
    THEN [err |-> "points to non-existent stack", stacks |-> <<>>]
    ELSE [err |-> "", stacks |-> SortedByName(DOMAIN d.links)]

\* stacks.CheckDependenciesForStack
CheckDependenciesForStack(stackName, enabledStacks) ==
    LET stack == LoadStack(stackName)
        missing == SelectSeq(stack.stack.requires,
                             LAMBDA dep : dep \notin EnabledStacksMap(enabledStacks))
    IN IF stack.err # "" THEN stack.err
       ELSE IF Len(missing) > 0 THEN "has unsatisfied dependencies"
       ELSE ""

\* stacks.GetAllServicesFromStacks: the services of the stacks, or an error
GetAllServicesFromStacks(stackNames) ==
    IF \E i \in DOMAIN stackNames : LoadStack(stackNames[i]).err # ""
    THEN [err |-> "load", services |-> {}]
    ELSE [err |-> "",
          services |-> UNION {Range(LoadStack(stackNames[i]).stack.services) :
                                 i \in DOMAIN stackNames}]

\* stacks.ServiceExists
ServiceExists(serviceName, enabledStacks) ==
    LET all == GetAllServicesFromStacks(enabledStacks)
    IN all.err = "" /\ serviceName \in all.services

\* an enable command that creates the link before it checks the requires
enableStack_LinkFirst(d, stackName) ==
    IF ~StackExists(d, stackName) THEN [err |-> "does not exist", disk |-> d]
    ELSE IF EnableStack(d, stackName).err # "" THEN EnableStack(d, stackName)
    ELSE IF CheckDependenciesForStack(stackName, GetEnabledStackLinks(d).stacks) # ""
    THEN [err |-> "has unsatisfied dependencies", disk |-> EnableStack(d, stackName).disk]
    ELSE EnableStack(d, stackName)

\* cmd.enableStack, without --suggest-category
enableStack(d, stackName) ==
    LET enabled == GetEnabledStackLinks(d)
        deps == CheckDependenciesForStack(stackName, enabled.stacks)
    IN IF ~StackExists(d, stackName) THEN [err |-> "does not exist", disk |-> d]
       ELSE IF enabled.err # "" THEN [err |-> enabled.err, disk |-> d]
       ELSE IF deps # "" THEN [err |-> deps, disk |-> d]
       ELSE EnableStack(d, stackName)

\* cmd.disableStack
disableStack(d, stackName) == DisableStack(d, stackName)

\* cmd.enableService
enableService(d, serviceName) ==
    LET enabled == GetEnabledStackLinks(d)
    IN IF enabled.err # "" THEN [err |-> enabled.err, disk |-> d]
       ELSE IF ~ServiceExists(serviceName, enabled.stacks)
       THEN [err |-> IF GetAllServicesFromStacks(enabled.stacks).err # ""
                     THEN "load" ELSE "not found in enabled stacks",
             disk |-> d]
       ELSE EnableService(d, serviceName)

\* cmd.disableService
disableService(d, serviceName) ==
    LET enabled == GetEnabledStackLinks(d)
    IN IF enabled.err # "" THEN [err |-> enabled.err, disk |-> d]
       ELSE IF ~ServiceExists(serviceName, enabled.stacks)
       THEN [err |-> IF GetAllServicesFromStacks(enabled.stacks).err # ""
                     THEN "load" ELSE "not found in enabled stacks",
             disk |-> d]
       ELSE DisableService(d, serviceName)

\* no command yet
NoCommand ==
    [op |-> "none", name |-> "", err |-> "", linksBefore |-> NoEntries,
     repeated |-> FALSE]

\* what call keeps of a command: the entries of enabled/ before it, and
\* whether it repeats a successful command
Command(op, name, r) ==
    [op |-> op, name |-> name, err |-> r.err, linksBefore |-> disk.links,
     repeated |-> (call.op = op /\ call.name = name /\ call.err = "")]

\* a repository with the stacks a, b and c, of which c may lack its
\* directory or its manifest, nothing enabled and no state file
InitCommands ==
    /\ stages = <<>>
    /\ ctx = NewContext
    /\ invoked = <<>>
    /\ result = NoResult
    /\ runs = <<>>
    /\ call = NoCommand
    /\ \E req \in [Stacks -> RequiresLists], existing \in {Stacks, Stacks \ {"c"}},
          hasManifest \in BOOLEAN :
          /\ Edges(req, Stacks) <= MaxCommandEdges
          /\ manifests = [s \in Stacks |->
                Manifest(s, s \in existing /\ (s = "c" => hasManifest), "other", req[s])]
          /\ disk = [stacks |-> existing, links |-> NoEntries, state |-> <<>>,
                     legacy |-> <<>>]

DoEnableStackCommand ==
    /\ \E stackName \in Stacks : \E r \in {enableStack(disk, stackName)} :
          /\ disk' = r.disk
          /\ call' = Command("enable", stackName, r)
    /\ UNCHANGED <<manifests, stages, ctx, invoked, result, runs>>

DoDisableStackCommand ==
    /\ \E stackName \in Stacks : \E r \in {disableStack(disk, stackName)} :
          /\ disk' = r.disk
          /\ call' = Command("disable", stackName, r)
    /\ UNCHANGED <<manifests, stages, ctx, invoked, result, runs>>

DoEnableServiceCommand ==
    /\ \E serviceName \in ServiceNames : \E r \in {enableService(disk, serviceName)} :
          /\ disk' = r.disk
          /\ call' = Command("enable -s", serviceName, r)
    /\ UNCHANGED <<manifests, stages, ctx, invoked, result, runs>>

DoDisableServiceCommand ==
    /\ \E serviceName \in ServiceNames : \E r \in {disableService(disk, serviceName)} :
          /\ disk' = r.disk
          /\ call' = Command("disable -s", serviceName, r)
    /\ UNCHANGED <<manifests, stages, ctx, invoked, result, runs>>

NextCommands ==
    \/ DoEnableStackCommand
    \/ DoDisableStackCommand
    \/ DoEnableServiceCommand
    \/ DoDisableServiceCommand

SpecCommands == InitCommands /\ [][NextCommands]_vars

(***************************************************************************)
(* DetectCycles step by step: call holds the detector d, the position i of *)
(* the range over d.graph, the frames of the dfs calls in progress (node,  *)
(* position k in d.graph[node], the path the call found), the value being  *)
(* returned, and a log of the calls entered and of the calls returned.     *)
(***************************************************************************)
IdleDetector ==
    [pc |-> "idle", d |-> [graph |-> <<>>, state |-> <<>>, path |-> <<>>],
     stackNames |-> <<>>, iterOrder |-> <<>>, i |-> 0, frames |-> <<>>,
     found |-> FALSE, cycle |-> <<>>, cycles |-> <<>>, entered |-> <<>>,
     returned |-> <<>>]

\* the start of a call dfs(node): its first two statements and its frame
EnterDfs(m, node) ==
    [m EXCEPT !.pc = "dfs",
              !.frames = Append(m.frames, [node |-> node, k |-> 1, path |-> m.d.path]),
              !.d = [SetState(m.d, node, stateVisiting)
                        EXCEPT !.path = Append(m.d.path, node)],
              !.entered = Append(m.entered, node)]

InitDetector ==
    /\ \E req \in [Stacks -> RequiresLists] :
          /\ Edges(req, Stacks) <= MaxEdges
          /\ manifests = [s \in Stacks |-> Manifest(s, TRUE, "other", req[s])]
    /\ call = IdleDetector
    /\ IdlePipeline

\* NewCycleDetector on the enabled stacks, and the order this run's range
\* over d.graph takes
DoNewCycleDetector ==
    /\ call.pc = "idle"
    /\ \E stackList \in EnabledLists : \E iterOrder \in Orderings(Range(stackList)) :
          call' = [call EXCEPT !.pc = "range",
                               !.d = NewCycleDetector(stackList).detector,
                               !.stackNames = stackList,
                               !.iterOrder = iterOrder, !.i = 1]
    /\ UNCHANGED <<manifests, pipeVars>>

\* one turn of the range of DetectCycles: an unvisited node starts a dfs
DetectCyclesRange ==
    /\ call.pc = "range"
    /\ call.i <= Len(call.iterOrder)
    /\ call' = IF StateOf(call.d, call.iterOrder[call.i]) = stateUnvisited
               THEN EnterDfs(call, call.iterOrder[call.i])
               ELSE [call EXCEPT !.i = call.i + 1]
    /\ UNCHANGED <<manifests, pipeVars>>

\* DetectCycles returns its cycles
DetectCyclesReturn ==
    /\ call.pc = "range"
    /\ call.i > Len(call.iterOrder)
    /\ call' = [call EXCEPT !.pc = "done"]
    /\ UNCHANGED <<manifests, pipeVars>>

\* one turn of the loop of the innermost dfs call over d.graph[node], or
\* the statements after the loop
dfsLoop ==
    /\ call.pc = "dfs"
    /\ \E top \in {call.frames[Len(call.frames)]} :
          call' =
            IF top.k > Len(GraphOf(call.d, top.node))
            THEN [call EXCEPT !.pc = "return", !.found = FALSE, !.cycle = <<>>,
                              !.d = [SetState(call.d, top.node, stateVisited)
                                        EXCEPT !.path = SubSeq(call.d.path, 1,
                                                               Len(call.d.path) - 1)]]
            ELSE IF StateOf(call.d, GraphOf(call.d, top.node)[top.k]) = stateVisiting
            THEN [call EXCEPT !.pc = "return", !.found = TRUE,
                              !.cycle = extractCycle(call.d, GraphOf(call.d, top.node)[top.k])]
            ELSE IF StateOf(call.d, GraphOf(call.d, top.node)[top.k]) = stateUnvisited
            THEN EnterDfs(call, GraphOf(call.d, top.node)[top.k])
            ELSE [call EXCEPT !.frames[Len(call.frames)].k = top.k + 1]
    /\ UNCHANGED <<manifests, pipeVars>>

\* the innermost dfs call returns to its caller: to a dfs call, which
\* returns a cycle at once and goes on with its loop otherwise, or to
\* DetectCycles, which appends a cycle
dfsReturn ==
    /\ call.pc = "return"
    /\ \E top \in {call.frames[Len(call.frames)]} :
       \E rest \in {SubSeq(call.frames, 1, Len(call.frames) - 1)} :
       \E log \in {Append(call.returned,
                          [node |-> top.node, before |-> top.path,
                           after |-> call.d.path, found |-> call.found])} :
          call' =
            IF rest = <<>>
            THEN [call EXCEPT !.pc = "range", !.frames = rest, !.returned = log,
                              !.i = call.i + 1,
                              !.cycles = IF call.found THEN Append(call.cycles, call.cycle)
                                         ELSE call.cycles]
            ELSE IF call.found
            THEN [call EXCEPT !.frames = rest, !.returned = log]
            ELSE [call EXCEPT !.pc = "dfs", !.returned = log,
                              !.frames = [rest EXCEPT ![Len(rest)].k = rest[Len(rest)].k + 1]]
    /\ UNCHANGED <<manifests, pipeVars>>

NextDetector ==
    \/ DoNewCycleDetector
    \/ DetectCyclesRange
    \/ DetectCyclesReturn
    \/ dfsLoop
    \/ dfsReturn

SpecDetector == InitDetector /\ [][NextDetector]_vars

(***************************************************************************)
(* What the claims speak of.                                               *)
(***************************************************************************)
RequiresOf(s) == Range(manifests[s].requires)

\* the stacks reached from those of S along requires entries
RECURSIVE RequiresClosure(_)
RequiresClosure(S) ==
    LET more == S \cup UNION {RequiresOf(s) : s \in S}
    IN IF more = S THEN S ELSE RequiresClosure(more)

OnCycle(s) == s \in RequiresClosure(RequiresOf(s))

AllRequiresEnabled(stackList) ==
    \A s \in Range(stackList) : RequiresOf(s) \subseteq Range(stackList)

HasCycle(stackList) == \E s \in Range(stackList) : OnCycle(s)

\* c lists distinct stacks, each requiring the next and the last the first
GenuineCycle(c) ==
    /\ Len(c) >= 1
    /\ \A i, j \in DOMAIN c : i # j => c[i] # c[j]
    /\ \A i \in 1..(Len(c) - 1) : c[i + 1] \in RequiresOf(c[i])
    /\ c[1] \in RequiresOf(c[Len(c)])

\* C5: when every requires entry of the enabled stacks is enabled and the
\* requires graph has a directed cycle, ValidateDependencies fails with a
\* cycle; and the cycle it reports is a path of requires edges over distinct
\* stacks whose last stack requires its first.
C5_CycleRejected ==
    call.op = "ValidateDependencies" =>
        /\ (AllRequiresEnabled(call.stackNames) /\ HasCycle(call.stackNames))
              => call.err = "cycle"
        /\ call.err = "cycle" => GenuineCycle(call.out)
        /\ call.err # "cycle" => call.out = NoCycle

C5_Witness ==
    /\ call.op = "ValidateDependencies"
    /\ call.err = "cycle"
    /\ Len(call.out) = 2
    /\ Len(call.stackNames) = 3

\* C6: ValidateDependencies succeeds exactly when every requires entry of
\* every enabled stack is enabled and the requires graph over the enabled
\* stacks has no directed cycle, whatever the order of the start nodes.
C6_ValidateIff ==
    call.op = "ValidateDependencies" =>
        (call.err = "" <=>
            (AllRequiresEnabled(call.stackNames) /\ ~HasCycle(call.stackNames)))

\* a stack with two requires entries, one of which requires the other
C6_Witness ==
    /\ call.op = "ValidateDependencies"
    /\ call.err = ""
    /\ \E s \in Range(call.stackNames) :
          \E d, e \in RequiresOf(s) : d # e /\ e \in RequiresOf(d)

\* the order the documentation gives each category of the model
DocumentedOrder(category) ==
    IF category = "core" THEN 1 ELSE IF category = "media" THEN 5 ELSE 999

OrderOfStack(s) == DocumentedOrder(manifests[s].category)

\* C7: ValidateCategoryDependencies succeeds exactly when no listed stack
\* requires a loadable stack of a strictly higher category order; a
\* requires entry that cannot be loaded is skipped.
C7_CategoryIff ==
    call.op = "ValidateCategoryDependencies" =>
        (call.err = "" <=>
            \A s \in Range(call.stackNames) : \A d \in RequiresOf(s) :
                Loadable(d) => OrderOfStack(s) >= OrderOfStack(d))

\* accepted although a required stack that cannot be loaded is of a higher
\* category order
C7_Witness ==
    /\ call.op = "ValidateCategoryDependencies"
    /\ call.err = ""
    /\ \E s \in Range(call.stackNames) : \E d \in RequiresOf(s) :
          ~Loadable(d) /\ OrderOfStack(d) > OrderOfStack(s)
    /\ \E s \in Range(call.stackNames) : \E d \in RequiresOf(s) :
          Loadable(d) /\ OrderOfStack(d) < OrderOfStack(s)

Position(list, s) == CHOOSE i \in DOMAIN list : list[i] = s

C10_OrderRespectsRequires ==
    (/\ call.op = "SortByCategory"
     /\ call.err = ""
     /\ \A iterOrder \in Orderings(Range(call.stackNames)) :
           ValidateDependencies(call.stackNames, iterOrder).err = ""
     /\ ValidateCategoryDependencies(call.stackNames).err = "")
    => \A s \in Range(call.out) : \A d \in RequiresOf(s) :
           Position(call.out, d) < Position(call.out, s)

\* the defaults the documentation gives each category of the model
DocumentedDefaults(category) ==
    IF category = "core"
    THEN [restart |-> Scalar("unless-stopped"),
          security_opt |-> ("0" :> "no-new-privileges:true")]
    ELSE IF category = "media"
    THEN [restart |-> Scalar("unless-stopped"),
          environment |-> [PUID |-> "1000", PGID |-> "1000"]]
    ELSE NoVars

\* the four layers of a merge call, lowest precedence first; MergeVariables
\* has no category layer
CallLayers ==
    <<IF call.op = "MergeWithCategoryDefaults"
      THEN DocumentedDefaults(manifests[call.stackNames[1]].category)
      ELSE NoVars,
      call.args[1], call.args[2], call.args[3]>>

C4_ScenarioS2 ==
    (/\ call.op = "MergeWithCategoryDefaults"
     /\ call.err = ""
     /\ call.args[1] = [app |-> [port |-> "80", debug |-> "false"]]
     /\ call.args[2] = [app |-> [port |-> "9000"]]
     /\ call.args[3] = [app |-> [debug |-> "true"]])
    => call.out["app"] = [port |-> "9000", debug |-> "true"]

\* C1: Execute invokes the stages in the order they were added and stops at
\* the first that returns an error: with a failing stage, it returns an
\* error naming the first failing stage i and has invoked exactly the
\* stages 1..i; with none, it returns nil and has invoked every stage once.
C1_OrderedFailFast ==
    (result.state = "returned" /\ Len(runs) = 0) =>
        LET failing == {i \in DOMAIN stages : stages[i] = "fail"}
        IN IF failing = {}
           THEN /\ result.err = ""
                /\ invoked = [i \in 1..Len(stages) |-> i]
           ELSE LET first == CHOOSE i \in failing : \A j \in failing : i <= j
                IN /\ result.err # ""
                   /\ result.stage = first
                   /\ invoked = [i \in 1..first |-> i]

\* a failing stage between two others: the third is never invoked
C1_Witness ==
    /\ result.state = "returned"
    /\ Len(stages) = 3
    /\ stages = <<"ok", "fail", "ok">>
    /\ invoked = <<1, 2>>
    /\ result.err # ""

\* C2: all runs of Generate on one repository have the same outcome: the
\* same error at the same stage, and the same runtime/docker-compose.yml.
C2_Deterministic ==
    \A i, j \in DOMAIN runs : runs[i] = runs[j]

\* C8: when the LoadStacks stage of a run of Generate succeeds, every
\* enabled stack is of a category ordered at or after the category of each
\* enabled stack it requires.
C8_GenerateEnforcesHierarchy ==
    (\E i \in DOMAIN runs : runs[i].err = "" \/ runs[i].stage > 1) =>
        \A s \in disk.enabled : \A i \in DOMAIN manifests[s].requires :
            manifests[s].requires[i] \in disk.enabled =>
                OrderOfStack(s) >= OrderOfStack(manifests[s].requires[i])

\* the fragments a call of MergeComposeFiles was handed, in input order
CallFragments == [i \in DOMAIN call.args[1] |-> disk.files[call.args[1][i]]]

\* the service names two or more of these fragments define
DuplicateServices ==
    {n \in FragmentServices :
        \E i, j \in DOMAIN CallFragments :
            i < j /\ n \in DOMAIN CallFragments[i].Services
                  /\ n \in DOMAIN CallFragments[j].Services}

\* C11: MergeComposeFiles fails with a duplicate-service error, naming a
\* service two fragments define, exactly when two fragments define one
\* service; otherwise it succeeds, and the merged services are the union
\* of the fragments' services, each with the definition of its fragment.
C11_ServiceUniqueness ==
    call.op = "MergeComposeFiles" =>
        /\ (call.err = "duplicate service name") <=> (DuplicateServices # {})
        /\ DuplicateServices # {} => call.out.name \in DuplicateServices
        /\ DuplicateServices = {} =>
              /\ call.err = ""
              /\ DOMAIN call.out.merged.Services =
                    UNION {DOMAIN CallFragments[i].Services : i \in DOMAIN CallFragments}
              /\ \A i \in DOMAIN CallFragments :
                    \A n \in DOMAIN CallFragments[i].Services :
                        call.out.merged.Services[n] = CallFragments[i].Services[n]

\* a call that fails on db, the one service of the first and third file
C11_Witness ==
    /\ call.op = "MergeComposeFiles"
    /\ Len(call.args[1]) = 3
    /\ DOMAIN CallFragments[1].Services = {"db"}
    /\ DOMAIN CallFragments[2].Services = {"app"}
    /\ DOMAIN CallFragments[3].Services = {"db"}
    /\ call.err = "duplicate service name"
    /\ call.out.name = "db"

\* the fragments, in input order, that define the network proxy
ProxyDefinitions ==
    SelectSeq(CallFragments, LAMBDA f : "proxy" \in DOMAIN f.Networks)

\* C13: a merge never fails for a network two fragments define, and the
\* merged definition of a network is the first, in input order, that is
\* not external, or the first of all when every definition is external.
C13_NetworkPolicy ==
    call.op = "MergeComposeFiles" =>
        /\ call.err # "" => DuplicateServices # {}
        /\ call.err = "" =>
              /\ ("proxy" \in DOMAIN call.out.merged.Networks) <=> (ProxyDefinitions # <<>>)
              /\ ProxyDefinitions # <<>> =>
                    LET creating == SelectSeq(ProxyDefinitions,
                            LAMBDA f : ~("external" \in DOMAIN f.Networks["proxy"]
                                         /\ f.Networks["proxy"].external = TRUE))
                    IN call.out.merged.Networks["proxy"] =
                          IF creating # <<>> THEN creating[1].Networks["proxy"]
                          ELSE ProxyDefinitions[1].Networks["proxy"]

\* an external definition, then two that are not: the second file's wins
C13_Witness ==
    /\ call.op = "MergeComposeFiles"
    /\ call.err = ""
    /\ Len(call.args[1]) = 3
    /\ CallFragments[1].Networks = [proxy |-> [external |-> TRUE, name |-> "a"]]
    /\ CallFragments[2].Networks = [proxy |-> [external |-> FALSE, name |-> "b"]]
    /\ CallFragments[3].Networks = [proxy |-> [name |-> "c"]]
    /\ call.out.merged.Networks["proxy"] = [external |-> FALSE, name |-> "b"]

\* the last run of Generate
LastRun == runs[Len(runs)]

\* C12: a run of Generate that fails before its WriteOutput stage leaves
\* runtime/docker-compose.yml as it was: absent if it was absent, with the
\* same content otherwise.
C12_AbortLeavesOutput ==
    \A i \in DOMAIN runs :
        (runs[i].err # "" /\ runs[i].stage < 8) =>
            runs[i].output = IF i = 1 THEN <<>> ELSE runs[i - 1].output

\* C14: FilterDisabledServices deletes from the services exactly the listed
\* names that are services, keeps the definitions of the others, returns
\* each deleted name once and no other, and leaves volumes and networks as
\* they were; and the output of a successful run of Generate holds no
\* service of the state file's disabled_services.
C14_DisabledRemoved ==
    /\ call.op = "FilterDisabledServices" =>
          LET before == call.args[1]
              after == call.out.compose
              listed == DOMAIN before.Services \cap Range(call.args[2])
          IN /\ DOMAIN after.Services = DOMAIN before.Services \ listed
             /\ \A n \in DOMAIN after.Services : after.Services[n] = before.Services[n]
             /\ Range(call.out.removed) = listed
             /\ Len(call.out.removed) = Cardinality(listed)
             /\ after.Volumes = before.Volumes
             /\ after.Networks = before.Networks
    /\ \A i \in DOMAIN runs :
          (runs[i].err = "" /\ runs[i].output # <<>>) =>
              DOMAIN runs[i].output[1].Services \cap Range(disk.disabledServices) = {}

\* a call that is handed web, a name that is no service, and a, on the
\* output of a run that holds the services a, b and web
C14_Witness ==
    /\ call.op = "FilterDisabledServices"
    /\ call.args[2] = <<"web", "ghost", "a">>
    /\ {"a", "web"} \subseteq DOMAIN call.args[1].Services
    /\ Len(call.out.removed) = 2
    /\ "b" \in DOMAIN call.out.compose.Services
    /\ disk.disabledServices = <<>>
    /\ runs # <<>>

\* the context of the pipeline of Generate after its first n stages
ContextAfter(n) ==
    Execute(SubSeq(GenerateStages(disk.debug), 1, n), NewContext, disk,
            [graph |-> SortedByName(disk.enabled), render |-> SortedByName(disk.enabled),
             merge |-> SortedByName(disk.enabled), services |-> ServiceOrder]).ctx

\* the variables MergeVariablesStage merges for a stack
MergedVarsOf(s) ==
    MergeWithCategoryDefaults(s, GetStackVars(s).vars, disk.inventoryVars,
                              disk.secrets[s]).merged

C16_IntermediatesReleased ==
    (Len(runs) > 0 /\ ~disk.debug) =>
        \A s \in disk.enabled : RuntimeComposeFile(s) \notin DOMAIN disk.files

\* C17: after a successful non-debug run of Generate the intermediate path
\* of every enabled stack differs from the path of the output and from the
\* other stacks' paths, and the output exists and holds the merged file.
C17_DistinctPaths ==
    (Len(runs) > 0 /\ ~disk.debug /\ LastRun.err = "") =>
        /\ \A s \in disk.enabled :
              /\ RuntimeComposeFile(s) # DockerCompose
              /\ \A t \in disk.enabled \ {s} :
                    RuntimeComposeFile(s) # RuntimeComposeFile(t)
        /\ DockerCompose \in DOMAIN disk.files
        /\ LastRun.output = <<disk.files[DockerCompose]>>

\* C18: each template is rendered with the stack's merged variables, the
\* stack's name, the category of the stack's manifest, and the enabled
\* stacks in deployment order.
C18_RenderingContext ==
    \A s \in disk.enabled :
        RuntimeComposeFile(s) \in DOMAIN disk.gomplate =>
            LET templateCtx == disk.gomplate[RuntimeComposeFile(s)]
            IN /\ templateCtx.Vars = MergedVarsOf(s)
               /\ templateCtx.Stack.name = s
               /\ templateCtx.Stack.category = manifests[s].category
               /\ templateCtx.Stacks.enabled = SortByCategory(SortedByName(disk.enabled)).sorted

\* what the calls of renderContributions have rendered so far
RenderedContributions ==
    UNION {Range(runs[i].rendered) : i \in DOMAIN runs}

\* C19: a contribution template is rendered to
\* runtime/traefik/dynamic/<stack>-<file without .tmpl>, and two different
\* pairs of an enabled stack and a template are never rendered to one path.
C19_UniqueOutputs ==
    \A x \in RenderedContributions :
        /\ x.path = "runtime/traefik/dynamic/" \o x.stack \o "-" \o x.entry.stem
        /\ \A y \in RenderedContributions :
              (x.stack # y.stack \/ x.entry # y.entry) => x.path # y.path

\* the links of the stacks other than name are the same in both
SameOtherLinks(before, after, name) ==
    /\ DOMAIN before \ {name} = DOMAIN after \ {name}
    /\ \A n \in DOMAIN before \ {name} : before[n] = after[n]

\* C20: for a stack that exists and has no entry under enabled/,
\* EnableStack and then DisableStack both succeed and leave the entries of
\* enabled/ as they were before; and neither call adds, removes or changes
\* the link of another stack.
C20_EnableDisableRoundTrip ==
    /\ \A i \in DOMAIN runs : SameOtherLinks(runs[i].before, runs[i].after, runs[i].name)
    /\ \A i \in DOMAIN runs :
          (/\ runs[i].op = "EnableStack"
           /\ runs[i].name \in disk.stacks
           /\ runs[i].name \notin DOMAIN runs[i].before) =>
              /\ runs[i].err = ""
              /\ DOMAIN runs[i].after = DOMAIN runs[i].before \cup {runs[i].name}
              /\ (i < Len(runs) /\ runs[i + 1].op = "DisableStack"
                     /\ runs[i + 1].name = runs[i].name) =>
                    /\ runs[i + 1].err = ""
                    /\ runs[i + 1].after = runs[i].before

\* a is enabled and disabled again while b is linked and c is a file
C20_Witness ==
    /\ Len(runs) = 2
    /\ runs[1].op = "EnableStack" /\ runs[1].name = "a" /\ runs[1].err = ""
    /\ runs[2].op = "DisableStack" /\ runs[2].name = "a" /\ runs[2].err = ""
    /\ DOMAIN runs[1].before = {"b", "c"}
    /\ runs[1].before["c"].kind = "file"
    /\ "a" \in DOMAIN runs[1].after
    /\ disk.links = runs[1].before

\* the list without the entries equal to x
Without(list, x) == SelectSeq(list, LAMBDA s : s # x)

\* C22: DisableService(x) for an x that is not listed, followed by
\* EnableService(x), both succeed and leave disabled_services as it was
\* before, the same entries in the same order.
C22_ServiceRoundTrip ==
    \A i \in DOMAIN runs :
        (/\ i < Len(runs)
         /\ runs[i].op = "DisableService"
         /\ runs[i].name \notin Range(runs[i].before)
         /\ runs[i + 1].op = "EnableService"
         /\ runs[i + 1].name = runs[i].name) =>
            /\ runs[i].err = ""
            /\ runs[i + 1].err = ""
            /\ runs[i].name \in Range(runs[i].after)
            /\ runs[i + 1].after = runs[i].before

\* b is disabled and enabled again while a and c are listed
C22_Witness ==
    /\ Len(runs) = 2
    /\ runs[1].op = "DisableService" /\ runs[1].name = "b" /\ runs[1].err = ""
    /\ runs[2].op = "EnableService" /\ runs[2].name = "b" /\ runs[2].err = ""
    /\ runs[1].before = <<"c", "a">>
    /\ runs[1].after = <<"c", "a", "b">>
    /\ disk.state = <<(<<"c", "a">>)>>

\* C23: DisableService(x) fails exactly when x is listed and
\* EnableService(x) fails exactly when x is not listed; a failed call leaves
\* the list as it was; a successful DisableService adds x and nothing else,
\* a successful EnableService removes x and nothing else.
C23_RejectNoOps ==
    \A i \in DOMAIN runs :
        /\ runs[i].op = "DisableService" =>
              /\ runs[i].err # "" <=> runs[i].name \in Range(runs[i].before)
              /\ runs[i].err # "" => runs[i].after = runs[i].before
              /\ runs[i].err = "" =>
                    /\ Range(runs[i].after) = Range(runs[i].before) \cup {runs[i].name}
                    /\ Without(runs[i].after, runs[i].name) = runs[i].before
                    /\ Len(runs[i].after) = Len(runs[i].before) + 1
        /\ runs[i].op = "EnableService" =>
              /\ runs[i].err # "" <=> runs[i].name \notin Range(runs[i].before)
              /\ runs[i].err # "" => runs[i].after = runs[i].before
              /\ runs[i].err = "" =>
                    /\ Range(runs[i].after) = Range(runs[i].before) \ {runs[i].name}
                    /\ runs[i].after = Without(runs[i].before, runs[i].name)

\* a is disabled while b is listed, a second DisableService(a) fails, and
\* EnableService(c) fails as c is not listed
C23_Witness ==
    /\ Len(runs) = 3
    /\ runs[1].op = "DisableService" /\ runs[1].name = "a" /\ runs[1].err = ""
    /\ runs[1].before = <<"b">>
    /\ runs[2].op = "DisableService" /\ runs[2].name = "a" /\ runs[2].err # ""
    /\ runs[3].op = "EnableService" /\ runs[3].name = "c" /\ runs[3].err # ""
    /\ disk.state = <<(<<"b", "a">>)>>

\* the strings of the legacy value of inventory/vars.yaml
LegacyStrings(legacy) ==
    IF legacy = <<>> \/ ~legacy[1].isList THEN {}
    ELSE {legacy[1].items[k].value :
             k \in {n \in DOMAIN legacy[1].items : legacy[1].items[n].isString}}

C30_StaysEnabled ==
    \A i \in DOMAIN runs : \A j \in DOMAIN runs :
        (/\ i < j
         /\ runs[i].op = "EnableService" /\ runs[i].err = ""
         /\ \A k \in (i + 1)..j :
               ~(runs[k].op = "DisableService" /\ runs[k].name = runs[i].name
                 /\ runs[k].err = "")) =>
            runs[i].name \notin Range(runs[j].after)

\* the services the manifests of the enabled stacks declare
EnabledServices ==
    UNION {Range(manifests[s].services) : s \in DOMAIN disk.links}

C24_DisabledAreEnabledServices ==
    Range(StateList(disk)) \subseteq EnabledServices

\* C27: after FilterServicesStage has run with disabled services, the
\* FilteredVars of every stack hold no key that names a disabled service
\* and hold the keys of the stack's other services.
C27_FilteredVarsDropDisabled ==
    (Len(runs) > 0 /\ disk.disabledServices # <<>>) =>
        \A filtered \in {ContextAfter(4)} :
            \A s \in DOMAIN filtered.StackConfigs :
                /\ DOMAIN filtered.StackConfigs[s].FilteredVars
                      \cap Range(disk.disabledServices) = {}
                /\ Range(manifests[s].services) \ Range(disk.disabledServices)
                      \subseteq DOMAIN filtered.StackConfigs[s].FilteredVars

\* the stacks that define the volume data, in deployment order
DataStacks ==
    SelectSeq(SortByCategory(SortedByName(disk.enabled)).sorted,
              LAMBDA s : "data" \in DOMAIN disk.templates[s].volumes)

\* C26: the fragments are merged in deployment order, so the output of a
\* successful run holds, of a volume that several enabled stacks define,
\* the definition of the stack that comes first in deployment order.
C26_MergeInDeploymentOrder ==
    (Len(runs) > 0 /\ LastRun.err = "" /\ LastRun.output # <<>>
       /\ "docker" \notin disk.enabled /\ DataStacks # <<>>) =>
        /\ "data" \in DOMAIN LastRun.output[1].Volumes
        /\ LastRun.output[1].Volumes["data"] = disk.templates[DataStacks[1]].volumes["data"]

\* C29: every list DetectCycles returns, the first and the later ones, is a
\* directed cycle of the requires graph: each stack requires the next and
\* the last requires the first.
C29_EveryCycleGenuine ==
    (call.op = "DetectCycles" /\ call.err = "") =>
        \A i \in DOMAIN call.out : GenuineCycle(call.out[i])

\* C28: while DetectCycles runs, (a) dfs is entered once per node at most;
\* (b) the path holds the nodes in state VISITING, in the order they were
\* entered; and every dfs call that has returned has left the path as it
\* found it and its node out of state VISITING.
C28_DetectorInvariants ==
    call.pc # "idle" =>
        /\ Cardinality(Range(call.entered)) = Len(call.entered)
        /\ call.d.path =
              SelectSeq(call.entered, LAMBDA n : StateOf(call.d, n) = stateVisiting)
        /\ \A r \in DOMAIN call.returned :
              /\ call.returned[r].after = call.returned[r].before
              /\ StateOf(call.d, call.returned[r].node) # stateVisiting

====
